---- MODULE Spec2Model ----
(***************************************************************************)
(* A model of the Tinta lexer (tinta/lexer.py, tinta/token.py,             *)
(* tinta/error.py).                                                        *)
(*                                                                         *)
(* A character is a TLA+ string used as an atomic label; "" is Python's    *)
(* empty string, the "no character" value of peek_char and next_char.  A   *)
(* Python str is a sequence of (non-empty) characters.  Python values      *)
(* that reach a caller are tagged with their Python type, so that a value  *)
(* stored in the wrong field of a Token is visible as such.                *)
(***************************************************************************)
EXTENDS Integers, Sequences

VARIABLES stream, length, offset, line, column, op, ret, observed, pure

vars == <<stream, length, offset, line, column, op, ret, observed, pure>>

---------------------------------------------------------------------------
(* Bounds of the model. *)

\* Longest input enumerated exhaustively over Alphabet.
MaxLen == 3

\* How many times pop_char may be called on an exhausted stream.
MaxOver == 2

\* How many read_next_token results the caller's record keeps.
MaxCalls == 7

---------------------------------------------------------------------------
(* Characters. *)

\* string.ascii_letters
AsciiLetters ==
    { "a", "b", "c", "d", "e", "f", "g", "h", "i", "j", "k", "l", "m",
      "n", "o", "p", "q", "r", "s", "t", "u", "v", "w", "x", "y", "z",
      "A", "B", "C", "D", "E", "F", "G", "H", "I", "J", "K", "L", "M",
      "N", "O", "P", "Q", "R", "S", "T", "U", "V", "W", "X", "Y", "Z" }

\* The characters str.isdigit accepts: the ASCII digits and, as Python's
\* isdigit is Unicode-aware, other Unicode digits (here SUPERSCRIPT
\* TWO).
DigitChars ==
    { "0", "1", "2", "3", "4", "5", "6", "7", "8", "9", "²" }

\* The characters str.isspace accepts (the ones the model uses).
SpaceChars == { " ", "\t", "\n", "\r", "\f" }

\* Lexer.symbols
symbols == << ".", "@", "#", "$", "*", ":", ";", "{", "}" >>

\* One character per class the dispatch and the readers tell apart:
\* letter, digit, hyphen, quote, backslash, newline, blank, symbol, other.
Alphabet == { "a", "1", "-", "\"", "\\", "\n", " ", ":", "?" }

---------------------------------------------------------------------------
(* The inputs of the test suite. *)

Scenario ==
    <<"-", "-", " ", "T", "h", "i", "s", " ", "i", "s", " ", "a", " ", "c", "o", "m", "m", "e", "n", "t", ".", "\n", "s", "u", "j", "e", "i", "t", "o", ":", " ", "\"", "E", "u", "\"", ";">>

IdentifierStreams ==
    { <<"v", "e", "r", "b", "o", "@">>,
      <<"p", "r", "e", "d", "i", "c", "a", "d", "o">>,
      <<"o", "b", "j", "e", "t", "o", "-", "d", "i", "r", "e", "t", "o", "-", "a">>,
      <<"_", "s", "u", "j", "e", "i", "t", "o", "_", "s", "i", "m", "p", "l", "e", "s", "_">>,
      <<"o", "1", "a", "d", "j", "u", "n", "t", "o", "1">>,
      <<"n", "u", "c", "l", "e", "o", "-">>,
      <<"-", "n", "u", "c", "l", "e", "o">>,
      <<"1", "s", "u", "j", "e", "i", "t", "o">>,
      <<"a", "-", "-">>,
      <<"a", "²">>,
      <<"a", "-", "²">> }

SymbolStreams ==
    { <<".">>, <<"@">>, <<"#">>, <<"$">>, <<"*">>,
      <<":">>, <<";">>, <<"{">>, <<"}">>, <<"?">> }

EscapeStreams ==
    { <<"\\", "n">>,
      <<"\\", "t">>,
      <<"\\", "r">>,
      <<"\\", "\\">>,
      <<"\\", "z">>,
      <<"\\">>,
      <<"x">>,
      <<"\\", "\"">> }

StringStreams ==
    { <<"\"", "A", "m", "o", "r", " ", "é", " ", "f", "o", "g", "o", "\"">>,
      <<"\"", "A", "m", "o", "r", "\\", "t", "é", " ", "f", "o", "g", "o", "\\", "n", "\"">>,
      <<"A", "m", "o", "r", " ", "é", " ", "f", "o", "g", "o", "\"">>,
      <<"\"", "A", "m", "o", "r", " ", "é", " ", "f", "o", "g", "o">> }

CommentStreams ==
    { <<"-", "-", " ", "T", "h", "i", "s", " ", "i", "s", " ", "a", " ", "c", "o", "m", "m", "e", "n", "t", ".">>,
      <<"-", "-", " ", "T", "h", "i", "s", " ", "i", "s", " ", "a", " ", "c", "o", "m", "m", "e", "n", "t", ".", "\n">>,
      <<"T", "h", "i", "s", " ", "i", "s", " ", "a", " ", "c", "o", "m", "m", "e", "n", "t", ".">>,
      <<"-", " ", "T", "h", "i", "s", " ", "i", "s", " ", "a", " ", "c", "o", "m", "m", "e", "n", "t", ".">> }

CursorStreams ==
    { <<"a", "b">>,
      <<"h", "t", "m", "l">>,
      <<"x", "m", "l">>,
      <<"a", "b", "\n", "c", "d", "\n", "e", "f">>,
      <<" ", "\t", "\n", "\r", "a", "\r", "\n", "\t", " ">> }

TestStreams ==
    {Scenario} \cup IdentifierStreams \cup SymbolStreams \cup EscapeStreams
        \cup StringStreams \cup CommentStreams \cup CursorStreams

\* Every input over Alphabet of at most MaxLen characters, the empty one
\* included.
BoundedStreams == UNION { [1..n -> Alphabet] : n \in 0..MaxLen }

Streams == BoundedStreams \cup TestStreams

---------------------------------------------------------------------------
(* Python values. *)

NoneValue == [type |-> "NoneType"]

Bool(b) == [type |-> "bool", v |-> b]

IntValue(n) == [type |-> "int", v |-> n]

\* A str, from its sequence of characters.
Str(s) == [type |-> "str", v |-> s]

\* The str holding one character, or no character.
CharStr(c) == Str(IF c = "" THEN <<>> ELSE <<c>>)

\* The tuple (line, column) that get_position builds.
Tuple2(a, b) == [type |-> "tuple", v |-> <<a, b>>]

\* A member of the TokenKind enumeration.
TokenKind(name) == [type |-> "TokenKind", v |-> name]

\* The dataclass constructor Token(...).  Its fields, in declaration
\* order, are position, kind (both required) and value (default '');
\* positional arguments fill them in that order, and a call with fewer than
\* two or more than three arguments raises TypeError.
Token(args) ==
    IF Len(args) \in {2, 3}
    THEN [ok       |-> TRUE,
          type     |-> "Token",
          position |-> args[1],
          kind     |-> args[2],
          value    |-> IF Len(args) = 3 THEN args[3] ELSE Str(<<>>)]
    ELSE [ok |-> FALSE]

\* ''.join(chars)
RECURSIVE Join(_)
Join(chars) ==
    IF chars = <<>> THEN <<>>
    ELSE (IF Head(chars) = "" THEN <<>> ELSE <<Head(chars)>>) \o Join(Tail(chars))

---------------------------------------------------------------------------
(* How a call ends: the Lexer it leaves and what the caller receives. *)

Return(self, value) ==
    [self |-> self, res |-> [status |-> "return", value |-> value]]

\* raise LexerError(message, line, column)
LexerError(self, message, l, c) ==
    [self |-> self,
     res  |-> [status |-> "LexerError", message |-> message,
               line |-> l, column |-> c]]

TypeError(self) ==
    [self |-> self, res |-> [status |-> "TypeError"]]

\* return Token(...)
ReturnToken(self, args) ==
    LET t == Token(args)
    IN  IF t.ok
        THEN Return(self, [type |-> "Token", position |-> t.position,
                           kind |-> t.kind, value |-> t.value])
        ELSE TypeError(self)

---------------------------------------------------------------------------
(* Character classification. *)

is_ascii_letter(char) == char # "" /\ char \in AsciiLetters

is_digit(char) == char \in DigitChars

is_ascii_letter_or_underscore(char) == is_ascii_letter(char) \/ char = "_"

is_ascii_letter_digit_or_underscore(char) ==
    is_ascii_letter_or_underscore(char) \/ is_digit(char)

is_ascii_letter_digit_underscore_or_hyphen(char) ==
    is_ascii_letter_digit_or_underscore(char) \/ char = "-"

isspace(char) == char \in SpaceChars

InSymbols(char) == \E i \in 1..Len(symbols) : symbols[i] = char

---------------------------------------------------------------------------
(* Cursor primitives.  self is the Lexer: stream, length, offset, line,    *)
(* column.  Python indexes from 0, TLA+ from 1.                            *)

\* __init__ that starts on line 2 when the input begins with a newline (a
\* mutant of Lexer).
Lexer_newline(s) ==
    [stream |-> s, length |-> Len(s), offset |-> 0,
     line |-> IF Len(s) > 0 /\ s[1] = "\n" THEN 2 ELSE 1, column |-> 1]

Lexer(s) ==
    [stream |-> s, length |-> Len(s), offset |-> 0, line |-> 1, column |-> 1]

\* at_eof reporting the end one character early (a mutant of at_eof).
at_eof_early(self) == self.offset + 1 >= self.length

at_eof(self) == self.offset >= self.length

get_offset(self) == self.offset

get_position(self) == Tuple2(self.line, self.column)

peek_char(self) ==
    IF self.offset >= self.length THEN "" ELSE self.stream[self.offset + 1]

\* peek2_char looking at the same character as peek_char (a mutant of
\* peek2_char).
peek2_char_same(self) ==
    IF self.offset >= self.length THEN "" ELSE self.stream[self.offset + 1]

peek2_char(self) ==
    IF self.offset + 1 >= self.length THEN "" ELSE self.stream[self.offset + 2]

\* pop_char testing the character it consumed instead of the one it now
\* points at (a mutant of pop_char).
pop_char_consumed(self) ==
    LET o == self.offset + 1
        c == self.column + 1
    IN  IF self.offset < self.length /\ self.stream[self.offset + 1] = "\n"
        THEN [self EXCEPT !.offset = o, !.line = self.line + 1, !.column = 1]
        ELSE [self EXCEPT !.offset = o, !.column = c]

\* pop_char that stops advancing at end of stream (a mutant of pop_char).
pop_char_clamped(self) ==
    LET o == self.offset + 1
        c == self.column + 1
    IN  IF self.offset >= self.length THEN self
        ELSE IF o < self.length /\ self.stream[o + 1] = "\n"
        THEN [self EXCEPT !.offset = o, !.line = self.line + 1, !.column = 1]
        ELSE [self EXCEPT !.offset = o, !.column = c]

pop_char(self) ==
    LET o == self.offset + 1
        c == self.column + 1
    IN  IF o < self.length /\ self.stream[o + 1] = "\n"
        THEN [self EXCEPT !.offset = o, !.line = self.line + 1, !.column = 1]
        ELSE [self EXCEPT !.offset = o, !.column = c]

\* next_char without its end-of-stream guard (a mutant of next_char).
next_char_unguarded(self) ==
    [self |-> pop_char(self),
     char |-> IF self.offset < self.length THEN self.stream[self.offset + 1] ELSE ""]

\* next_char returning the character at the offset it has advanced to (a
\* mutant of next_char).
next_char_after(self) ==
    IF self.offset >= self.length
    THEN [self |-> self, char |-> ""]
    ELSE [self |-> pop_char(self), char |-> peek_char(pop_char(self))]

\* The Lexer next_char leaves and the character it returns.
next_char(self) ==
    IF self.offset >= self.length
    THEN [self |-> self, char |-> ""]
    ELSE [self |-> pop_char(self), char |-> self.stream[self.offset + 1]]

\* skip_whitespace with an if in place of its while (a mutant of
\* skip_whitespace).
skip_whitespace_one(self) ==
    IF at_eof(self) THEN self
    ELSE IF isspace(peek_char(self)) THEN pop_char(self)
    ELSE self

RECURSIVE skip_whitespace(_)
skip_whitespace(self) ==
    IF at_eof(self) THEN self
    ELSE IF isspace(peek_char(self)) THEN skip_whitespace(pop_char(self))
    ELSE self

---------------------------------------------------------------------------
(* Construct readers.  Each yields the Lexer it leaves and the result.     *)

\* The loop of read_identifier, entered with the characters read so far.
RECURSIVE read_identifier_loop(_, _)
read_identifier_loop(self, chars) ==
    LET lookahead1 == peek_char(self)
        lookahead2 == peek2_char(self)
        done == ReturnToken(self, <<TokenKind("IDENTIFIER"), Str(Join(chars))>>)
    IN  IF at_eof(self) THEN done
        ELSE IF lookahead1 = "-"
        THEN IF is_ascii_letter_digit_underscore_or_hyphen(lookahead2)
             THEN read_identifier_loop(pop_char(self), Append(chars, lookahead1))
             ELSE LexerError(self, "Identifiers cannot end with a hyphen",
                             self.line, self.column)
        ELSE IF is_ascii_letter_digit_or_underscore(lookahead1)
        THEN read_identifier_loop(pop_char(self), Append(chars, lookahead1))
        ELSE done

read_identifier(self) ==
    LET n == next_char(self)
    IN  IF is_digit(n.char)
        THEN LexerError(n.self, "Identifiers cannot start with a digit",
                        n.self.line, n.self.column)
        ELSE IF n.char = "-"
        THEN LexerError(n.self, "Identifiers cannot start with a hyphen",
                        n.self.line, n.self.column)
        ELSE read_identifier_loop(n.self, <<n.char>>)

\* Returns the decoded character as a str, or raises.
\* read_escape_char that also resolves an escaped double quote (a mutant
\* of read_escape_char).
read_escape_char_quote(self) ==
    LET n1 == next_char(self)
        n2 == next_char(n1.self)
    IN  IF n1.char # "\\"
        THEN LexerError(n1.self, "Expected backslash", n1.self.line, n1.self.column)
        ELSE IF at_eof(n1.self)
        THEN LexerError(n1.self, "Unterminated escape sequence at EOF",
                        n1.self.line, n1.self.column)
        ELSE IF n2.char = "\\" THEN Return(n2.self, CharStr("\\"))
        ELSE IF n2.char = "n" THEN Return(n2.self, CharStr("\n"))
        ELSE IF n2.char = "t" THEN Return(n2.self, CharStr("\t"))
        ELSE IF n2.char = "r" THEN Return(n2.self, CharStr("\r"))
        ELSE IF n2.char = "\"" THEN Return(n2.self, CharStr("\""))
        ELSE LexerError(n2.self, "Invalid escape sequence",
                        n2.self.line, n2.self.column)

read_escape_char(self) ==
    LET n1 == next_char(self)
        n2 == next_char(n1.self)
    IN  IF n1.char # "\\"
        THEN LexerError(n1.self, "Expected backslash", n1.self.line, n1.self.column)
        ELSE IF at_eof(n1.self)
        THEN LexerError(n1.self, "Unterminated escape sequence at EOF",
                        n1.self.line, n1.self.column)
        ELSE IF n2.char = "\\" THEN Return(n2.self, CharStr("\\"))
        ELSE IF n2.char = "n" THEN Return(n2.self, CharStr("\n"))
        ELSE IF n2.char = "t" THEN Return(n2.self, CharStr("\t"))
        ELSE IF n2.char = "r" THEN Return(n2.self, CharStr("\r"))
        ELSE LexerError(n2.self, "Invalid escape sequence",
                        n2.self.line, n2.self.column)

\* The loop of read_string followed by the closing pop_char without the
\* end-of-stream test before it (a mutant of read_string_loop).
RECURSIVE read_string_loop_open(_, _)
read_string_loop_open(self, chars) ==
    LET lookahead == peek_char(self)
        e == read_escape_char(self)
    IN  IF ~at_eof(self) /\ lookahead # "\""
        THEN IF lookahead = "\\"
             THEN IF e.res.status = "return"
                  THEN read_string_loop_open(e.self, chars \o e.res.value.v)
                  ELSE e
             ELSE read_string_loop_open(pop_char(self), Append(chars, lookahead))
        ELSE ReturnToken(pop_char(self), <<TokenKind("STRING"), Str(Join(chars))>>)

\* The loop of read_string and the statements after it.
RECURSIVE read_string_loop(_, _)
read_string_loop(self, chars) ==
    LET lookahead == peek_char(self)
        e == read_escape_char(self)
    IN  IF ~at_eof(self) /\ lookahead # "\""
        THEN IF lookahead = "\\"
             THEN IF e.res.status = "return"
                  THEN read_string_loop(e.self, chars \o e.res.value.v)
                  ELSE e
             ELSE read_string_loop(pop_char(self), Append(chars, lookahead))
        ELSE IF at_eof(self)
        THEN LexerError(self, "Unterminated string", self.line, self.column)
        ELSE ReturnToken(pop_char(self), <<TokenKind("STRING"), Str(Join(chars))>>)

\* read_string that checks the opening quote before consuming it (a mutant
\* of read_string).
read_string_peek(self) ==
    IF peek_char(self) # "\""
    THEN LexerError(self, "Expected double quote", self.line, self.column)
    ELSE read_string_loop(next_char(self).self, <<>>)

read_string(self) ==
    LET n == next_char(self)
    IN  IF n.char # "\""
        THEN LexerError(n.self, "Expected double quote", n.self.line, n.self.column)
        ELSE read_string_loop(n.self, <<>>)

\* The loop of read_comment.
RECURSIVE read_comment_loop(_, _)
read_comment_loop(self, chars) ==
    LET n == next_char(self)
        done(s) == ReturnToken(s, <<TokenKind("COMMENT"), Str(Join(chars))>>)
    IN  IF at_eof(self) THEN done(self)
        ELSE IF n.char = "\n" THEN done(n.self)
        ELSE read_comment_loop(n.self, Append(chars, n.char))

\* read_comment that takes whatever follows the first hyphen as the start
\* of the comment (a mutant of read_comment).
read_comment_lenient(self) ==
    LET n1 == next_char(self)
        n2 == next_char(n1.self)
    IN  IF n1.char # "-"
        THEN LexerError(n1.self, "Expected hyphen", n1.self.line, n1.self.column)
        ELSE read_comment_loop(n2.self, <<>>)

read_comment(self) ==
    LET n1 == next_char(self)
        n2 == next_char(n1.self)
    IN  IF n1.char # "-"
        THEN LexerError(n1.self, "Expected hyphen", n1.self.line, n1.self.column)
        ELSE IF n2.char # "-"
        THEN LexerError(n2.self, "Expected hyphen", n2.self.line, n2.self.column)
        ELSE read_comment_loop(n2.self, <<>>)

read_symbol(self) ==
    LET n == next_char(self)
    IN  IF n.char = "." THEN ReturnToken(n.self, <<TokenKind("DOT")>>)
        ELSE IF n.char = "@" THEN ReturnToken(n.self, <<TokenKind("AT_SIGN")>>)
        ELSE IF n.char = "#" THEN ReturnToken(n.self, <<TokenKind("HASH_SIGN")>>)
        ELSE IF n.char = "$" THEN ReturnToken(n.self, <<TokenKind("DOLLAR_SIGN")>>)
        ELSE IF n.char = "*" THEN ReturnToken(n.self, <<TokenKind("ASTERISK")>>)
        ELSE IF n.char = ":" THEN ReturnToken(n.self, <<TokenKind("COLON")>>)
        ELSE IF n.char = ";" THEN ReturnToken(n.self, <<TokenKind("SEMICOLON")>>)
        ELSE IF n.char = "{" THEN ReturnToken(n.self, <<TokenKind("LEFT_BRACE")>>)
        ELSE IF n.char = "}" THEN ReturnToken(n.self, <<TokenKind("RIGHT_BRACE")>>)
        ELSE LexerError(n.self, "Unexpected character",
                        n.self.line, n.self.column)

\* read_next_token that consumes the character it cannot dispatch on before
\* raising, as read_symbol does (a mutant of read_next_token).
RECURSIVE read_next_token_pop(_)
read_next_token_pop(self) ==
    LET lookahead == peek_char(self)
        after == pop_char(self)
    IN  IF at_eof(self) THEN ReturnToken(self, <<TokenKind("EOF")>>)
        ELSE IF is_ascii_letter_or_underscore(lookahead) THEN read_identifier(self)
        ELSE IF lookahead = "-" THEN read_comment(self)
        ELSE IF lookahead = "\"" THEN read_string(self)
        ELSE IF isspace(lookahead) THEN read_next_token_pop(skip_whitespace(self))
        ELSE IF InSymbols(lookahead) THEN read_symbol(self)
        ELSE LexerError(after, "Unexpected character", after.line, after.column)

RECURSIVE read_next_token(_)
read_next_token(self) ==
    LET lookahead == peek_char(self)
    IN  IF at_eof(self) THEN ReturnToken(self, <<TokenKind("EOF")>>)
        ELSE IF is_ascii_letter_or_underscore(lookahead) THEN read_identifier(self)
        ELSE IF lookahead = "-" THEN read_comment(self)
        ELSE IF lookahead = "\"" THEN read_string(self)
        ELSE IF isspace(lookahead) THEN read_next_token(skip_whitespace(self))
        ELSE IF InSymbols(lookahead) THEN read_symbol(self)
        ELSE LexerError(self, "Unexpected character", self.line, self.column)

---------------------------------------------------------------------------
(* The state machine: one Lexer and a caller that invokes its methods in   *)
(* any order.  op and ret are the method last called and what it gave the  *)
(* caller.  observed records the results of the read_next_token calls of   *)
(* a caller that has called nothing else since construction (pure), as     *)
(* the test's successive `observed` values.                                *)

Self ==
    [stream |-> stream, length |-> length, offset |-> offset,
     line |-> line, column |-> column]

Init ==
    /\ stream \in Streams
    /\ length = Lexer(stream).length
    /\ offset = Lexer(stream).offset
    /\ line = Lexer(stream).line
    /\ column = Lexer(stream).column
    /\ op = "__init__"
    /\ ret = NoneValue
    /\ observed = <<>>
    /\ pure = TRUE

\* The effect of a call of method name that ended as out, by a caller that
\* is not (or no longer) only calling read_next_token.
Call(name, out) ==
    /\ stream' = out.self.stream
    /\ length' = out.self.length
    /\ offset' = out.self.offset
    /\ line' = out.self.line
    /\ column' = out.self.column
    /\ op' = name
    /\ ret' = out.res
    /\ observed' = <<>>
    /\ pure' = FALSE

AtEof ==
    \E out \in {Return(Self, Bool(at_eof(Self)))} : Call("at_eof", out)

GetOffset ==
    \E out \in {Return(Self, IntValue(get_offset(Self)))} :
        Call("get_offset", out)

GetPosition ==
    \E out \in {Return(Self, get_position(Self))} : Call("get_position", out)

PeekChar ==
    \E out \in {Return(Self, CharStr(peek_char(Self)))} : Call("peek_char", out)

Peek2Char ==
    \E out \in {Return(Self, CharStr(peek2_char(Self)))} :
        Call("peek2_char", out)

\* pop_char never fails; the model stops calling it MaxOver characters past
\* the end of the stream.
PopChar ==
    /\ offset < length + MaxOver
    /\ \E out \in {Return(pop_char(Self), NoneValue)} : Call("pop_char", out)

NextChar ==
    \E n \in {next_char(Self)} :
        Call("next_char", Return(n.self, CharStr(n.char)))

SkipWhitespace ==
    \E out \in {Return(skip_whitespace(Self), NoneValue)} :
        Call("skip_whitespace", out)

ReadIdentifier ==
    \E out \in {read_identifier(Self)} : Call("read_identifier", out)

ReadEscapeChar ==
    \E out \in {read_escape_char(Self)} : Call("read_escape_char", out)

ReadString ==
    \E out \in {read_string(Self)} : Call("read_string", out)

ReadComment ==
    \E out \in {read_comment(Self)} : Call("read_comment", out)

ReadSymbol ==
    \E out \in {read_symbol(Self)} : Call("read_symbol", out)

\* read_next_token; the caller's record grows while it is pure and has room.
ReadNextToken ==
    \E out \in {read_next_token(Self)} :
        LET keep == pure /\ Len(observed) < MaxCalls
        IN  /\ stream' = out.self.stream
            /\ length' = out.self.length
            /\ offset' = out.self.offset
            /\ line' = out.self.line
            /\ column' = out.self.column
            /\ op' = "read_next_token"
            /\ ret' = out.res
            /\ observed' = IF keep THEN Append(observed, out.res) ELSE <<>>
            /\ pure' = keep

Next ==
    \/ AtEof
    \/ GetOffset
    \/ GetPosition
    \/ PeekChar
    \/ Peek2Char
    \/ PopChar
    \/ NextChar
    \/ SkipWhitespace
    \/ ReadIdentifier
    \/ ReadEscapeChar
    \/ ReadString
    \/ ReadComment
    \/ ReadSymbol
    \/ ReadNextToken

Spec == Init /\ [][Next]_vars

---------------------------------------------------------------------------
(* Properties.                                                             *)

\* r is the return of a Token of kind k whose value is the text.
TokenIs(r, k, text) ==
    /\ r.status = "return"
    /\ r.value.type = "Token"
    /\ r.value.kind.type = "TokenKind"
    /\ r.value.kind.v = k
    /\ r.value.value.type = "str"
    /\ r.value.value.v = text

\* r is the return of a Token, whatever its fields hold.
ReturnsToken(r) ==
    /\ r.status = "return"
    /\ r.value.type = "Token"

ReaderOps ==
    { "read_identifier", "read_string", "read_comment", "read_symbol",
      "read_next_token" }

\* The six tokens of the scenario, as kind and value.
ScenarioTokens ==
    << << "COMMENT", <<" ", "T", "h", "i", "s", " ", "i", "s", " ", "a", " ",
                       "c", "o", "m", "m", "e", "n", "t", ".">> >>,
       << "IDENTIFIER", <<"s", "u", "j", "e", "i", "t", "o">> >>,
       << "COLON", <<>> >>,
       << "STRING", <<"E", "u">> >>,
       << "SEMICOLON", <<>> >>,
       << "EOF", <<>> >> >>

\* C1: on the scenario input (comment line, newline, identifier, colon,
\* string literal, semicolon) the successive read_next_token calls return
\* COMMENT with the text after the hyphens, IDENTIFIER, COLON, STRING with
\* the text between the quotes, SEMICOLON and then EOF; nothing is returned
\* for whitespace and no call raises.
C1_ScenarioTokenSequence ==
    (stream = Scenario /\ pure) =>
        \A i \in 1..Len(observed) :
            LET e == ScenarioTokens[IF i < 6 THEN i ELSE 6]
            IN  TokenIs(observed[i], e[1], e[2])

\* C2: at end of stream every read_next_token call returns a token of kind
\* EOF, does not raise, and leaves offset, line and column unchanged.
C2_EofRepeats ==
    [][ (offset >= length /\ op' = "read_next_token") =>
            /\ ReturnsToken(ret')
            /\ ret'.value.kind.type = "TokenKind"
            /\ ret'.value.kind.v = "EOF"
            /\ offset' = offset /\ line' = line /\ column' = column ]_vars

\* C3: the EOF token returned at end of stream has an empty value and the
\* cursor's position in its position field; and every token a reader
\* returns has a TokenKind in kind, a str in value and a position (a pair of
\* line and column) in position.
C3_TokenFields ==
    /\ [][ (offset >= length /\ op' = "read_next_token") =>
               /\ TokenIs(ret', "EOF", <<>>)
               /\ ret'.value.position.type = "tuple"
               /\ ret'.value.position = get_position(Self') ]_vars
    /\ [] ( (op \in ReaderOps /\ ReturnsToken(ret)) =>
               /\ ret.value.kind.type = "TokenKind"
               /\ ret.value.value.type = "str"
               /\ ret.value.position.type = "tuple" )

\* C4 as stated: in every reachable state 0 <= offset <= length, line >= 1
\* and column >= 1.
C4_OffsetWithinLength ==
    /\ 0 <= offset /\ offset <= length
    /\ line >= 1 /\ column >= 1

\* C4 as amended: in every reachable state offset >= 0, line >= 1 and
\* column >= 1; and every operation other than a pop_char called at end of
\* stream keeps offset <= length.
C4_CursorBounds ==
    /\ [] (offset >= 0 /\ line >= 1 /\ column >= 1)
    /\ [][ (offset <= length /\ ~(op' = "pop_char" /\ offset >= length)) =>
               offset' <= length' ]_vars

\* A reader has consumed a multi-line input up to its end.
C4_Witness ==
    /\ op \in ReaderOps
    /\ offset = length /\ length >= 2
    /\ line >= 2 /\ column >= 2

\* C5: at_eof() is true exactly when offset >= length, and once offset >=
\* length it stays so after every further operation, pop_char past the end
\* included.
C5_AtEofStable ==
    /\ [] (op = "at_eof" =>
              ret = [status |-> "return", value |-> Bool(offset >= length)])
    /\ [][ offset >= length => offset' >= length' ]_vars

\* at_eof is called after pop_char has moved twice past the end.
C5_Witness ==
    /\ op = "at_eof"
    /\ offset >= length + 2
    /\ ret.value = Bool(TRUE)

\* The step consumes the character at offset (pop_char, or next_char before
\* end of stream).
Consumes ==
    /\ op' \in {"pop_char", "next_char"}
    /\ offset' = offset + 1

\* C6 as stated: consuming a character that is not a newline advances
\* column by 1 and leaves line unchanged; right after consuming a newline
\* the position is column 1 of the next line.
C6_ConsumedCharDecides ==
    [][ (Consumes /\ offset < length) =>
            IF stream[offset + 1] = "\n"
            THEN line' = line + 1 /\ column' = 1
            ELSE line' = line /\ column' = column + 1 ]_vars

\* C6 as amended: consuming a character advances column by 1 and leaves
\* line unchanged unless the character then at offset is a newline, and in
\* that case increments line and sets column to 1.  So column 1 of the
\* incremented line is reported while a newline (not the first character)
\* is the lookahead, not after it has been consumed.
C6_LookaheadDecides ==
    /\ [][ (Consumes /\ offset < length) =>
               IF offset' < length /\ stream[offset' + 1] = "\n"
               THEN line' = line + 1 /\ column' = 1
               ELSE line' = line /\ column' = column + 1 ]_vars
    /\ [] ( (1 <= offset /\ offset < length /\ stream[offset + 1] = "\n") =>
               column = 1 /\ line >= 2 )

\* A character was consumed and the cursor now points at a newline.
C6_Witness ==
    /\ op \in {"pop_char", "next_char"}
    /\ 1 <= offset /\ offset < length
    /\ stream[offset + 1] = "\n"
    /\ line = 2 /\ column = 1

\* C7: a caller that only calls read_next_token has seen an EOF token or a
\* LexerError within length + 1 calls, and every call that returns a token
\* other than EOF has increased offset.
C7_ScanEnds ==
    /\ [] ( (pure /\ Len(observed) = length + 1) =>
               \E i \in 1..Len(observed) :
                   \/ observed[i].status = "LexerError"
                   \/ /\ ReturnsToken(observed[i])
                      /\ observed[i].value.kind.type = "TokenKind"
                      /\ observed[i].value.kind.v = "EOF" )
    /\ [][ (op' = "read_next_token" /\ ReturnsToken(ret')
            /\ ~TokenIs(ret', "EOF", <<>>)) => offset' > offset ]_vars

\* The characters the claims call letters, digits, underscore and hyphen.
IdentifierChars ==
    AsciiLetters \cup {"_", "-"}
        \cup {"0", "1", "2", "3", "4", "5", "6", "7", "8", "9"}

\* s is an identifier with legal hyphen placement.
LegalIdentifier(s) ==
    /\ Len(s) >= 1
    /\ s[1] \in AsciiLetters \cup {"_"}
    /\ \A i \in 1..Len(s) : s[i] \in IdentifierChars
    /\ \A i \in 1..Len(s) :
           s[i] = "-" => (i < Len(s) /\ s[i + 1] \in IdentifierChars)
    /\ s[Len(s)] # "-"

\* C8: read_identifier from offset 0 on a legal identifier returns an
\* IDENTIFIER token whose value is the whole input and ends at end of
\* stream; on a legal identifier followed by a non-identifier character it
\* returns the identifier alone and stops on that character.
C8_IdentifierRoundTrip ==
    [][ (op' = "read_identifier" /\ offset = 0) =>
            /\ LegalIdentifier(stream) =>
                   (TokenIs(ret', "IDENTIFIER", stream) /\ offset' = length)
            /\ \A k \in 1..(length - 1) :
                   (LegalIdentifier(SubSeq(stream, 1, k))
                    /\ stream[k + 1] \notin IdentifierChars) =>
                       (TokenIs(ret', "IDENTIFIER", SubSeq(stream, 1, k))
                        /\ offset' = k) ]_vars

\* C9: read_identifier, wherever it is invoked, either raises LexerError or
\* returns an IDENTIFIER whose value is a legal identifier (non-empty,
\* starting with a letter or underscore, of identifier characters only, not
\* ending with a hyphen).  read_next_token hands its caller what
\* read_identifier returns, so the direct calls cover the dispatched ones.
C9_NoMalformedIdentifier ==
    op = "read_identifier" =>
        \/ ret.status = "LexerError"
        \/ /\ ReturnsToken(ret)
           /\ ret.value.kind.type = "TokenKind"
           /\ ret.value.kind.v = "IDENTIFIER"
           /\ ret.value.value.type = "str"
           /\ LET s == ret.value.value.v
              IN  /\ Len(s) >= 1
                  /\ s[1] \in AsciiLetters \cup {"_"}
                  /\ \A i \in 1..Len(s) : s[i] \in IdentifierChars
                  /\ s[Len(s)] # "-"

\* The kind the table gives for a symbol character.
SymbolKind(char) ==
    CASE char = "." -> "DOT"
      [] char = "@" -> "AT_SIGN"
      [] char = "#" -> "HASH_SIGN"
      [] char = "$" -> "DOLLAR_SIGN"
      [] char = "*" -> "ASTERISK"
      [] char = ":" -> "COLON"
      [] char = ";" -> "SEMICOLON"
      [] char = "{" -> "LEFT_BRACE"
      [] char = "}" -> "RIGHT_BRACE"

SymbolChars == { ".", "@", "#", "$", "*", ":", ";", "{", "}" }

\* C10: on a symbol character read_symbol, and read_next_token, consume
\* exactly that character and return the token of the table's kind with an
\* empty value; on anything else read_symbol raises LexerError.
C10_SymbolTable ==
    /\ [][ (op' \in {"read_symbol", "read_next_token"}
            /\ peek_char(Self) \in SymbolChars) =>
               /\ TokenIs(ret', SymbolKind(peek_char(Self)), <<>>)
               /\ offset' = offset + 1 ]_vars
    /\ [][ (op' = "read_symbol" /\ peek_char(Self) \notin SymbolChars) =>
               ret'.status = "LexerError" ]_vars

\* The characters read_next_token has a reader for: letter or underscore,
\* hyphen, double quote, whitespace and the symbols.
DispatchChars ==
    AsciiLetters \cup {"_", "-", "\""} \cup SpaceChars \cup SymbolChars

\* C11: read_next_token raises LexerError, and returns nothing, when the
\* lookahead is a character it has no reader for (as "?" or a digit), and
\* when the lookahead is a hyphen that is not followed by a second hyphen,
\* a hyphen ending the input included.
C11_DispatchErrors ==
    [][ (op' = "read_next_token" /\ offset < length
         /\ \/ stream[offset + 1] \notin DispatchChars
            \/ /\ stream[offset + 1] = "-"
               /\ (offset + 1 < length => stream[offset + 2] # "-")) =>
            ret'.status = "LexerError" ]_vars

\* read_next_token has been called on a hyphen that ends the input.
C11_Witness ==
    /\ op = "read_next_token"
    /\ ret.status = "LexerError"
    /\ stream = <<"-">> /\ offset = 1
    /\ ret.message = "Expected hyphen"

\* C12: on a whitespace lookahead read_next_token consumes the whole run of
\* whitespace and then does what read_next_token does with the cursor on
\* the first character after the run: the same result and the same final
\* cursor, never a token for the whitespace, and an EOF token when the
\* whitespace runs to the end of the input.
C12_WhitespaceThenNextToken ==
    [][ (op' = "read_next_token" /\ offset < length
         /\ stream[offset + 1] \in SpaceChars) =>
            LET after == skip_whitespace(Self)
                out == read_next_token(after)
            IN  /\ after.offset > offset
                /\ \A i \in (offset + 1)..after.offset : stream[i] \in SpaceChars
                /\ after.offset < length => stream[after.offset + 1] \notin SpaceChars
                /\ ret' = out.res
                /\ Self' = out.self
                /\ after.offset >= length => TokenIs(ret', "EOF", <<>>) ]_vars

\* The (line, column) of a Lexer.
PositionOf(self) == <<self.line, self.column>>

\* The step raises LexerError with the position the cursor has after the n
\* characters at offset are consumed, the cursor is left there, and that is
\* not the position of the last of these characters.
RaisesAfter(n) ==
    LET before == IF n = 1 THEN Self ELSE pop_char(Self)
        after == pop_char(before)
    IN  /\ ret'.status = "LexerError"
        /\ <<ret'.line, ret'.column>> = PositionOf(after)
        /\ <<ret'.line, ret'.column>> # PositionOf(before)
        /\ Self' = after

AsciiDigits == {"0", "1", "2", "3", "4", "5", "6", "7", "8", "9"}

\* C13: a LexerError carries the line and column the cursor has when the
\* failure is detected, and the cursor stays there; when the offending
\* character has been consumed (read_symbol on an unknown character,
\* read_identifier on a leading digit or hyphen, read_escape_char on an
\* unknown escape letter, read_string without opening quote, read_comment
\* without first or second hyphen) that is the position of the character
\* after the offending one.
C13_ErrorPosition ==
    /\ [] ( (op # "__init__" /\ ret.status = "LexerError") =>
               (ret.line = line /\ ret.column = column) )
    /\ [][ (op' = "read_symbol" /\ offset < length
            /\ stream[offset + 1] \notin SymbolChars) => RaisesAfter(1) ]_vars
    /\ [][ (op' = "read_identifier" /\ offset < length
            /\ stream[offset + 1] \in AsciiDigits \cup {"-"}) =>
               RaisesAfter(1) ]_vars
    /\ [][ (op' = "read_escape_char" /\ offset + 1 < length
            /\ stream[offset + 1] = "\\"
            /\ stream[offset + 2] \notin {"\\", "n", "t", "r"}) =>
               RaisesAfter(2) ]_vars
    /\ [][ (op' = "read_string" /\ offset < length
            /\ stream[offset + 1] # "\"") => RaisesAfter(1) ]_vars
    /\ [][ (op' = "read_comment" /\ offset < length
            /\ stream[offset + 1] # "-") => RaisesAfter(1) ]_vars
    /\ [][ (op' = "read_comment" /\ offset + 1 < length
            /\ stream[offset + 1] = "-"
            /\ stream[offset + 2] # "-") => RaisesAfter(2) ]_vars

\* read_string has failed on a first character that is no quote, on the
\* second line of its input.
C13_Witness ==
    /\ op = "read_string"
    /\ ret.status = "LexerError"
    /\ ret.message = "Expected double quote"
    /\ offset >= 2 /\ offset <= length
    /\ stream[offset] # "\""
    /\ ret.line = 2

\* The two-character escape of a backslash, newline, tab or carriage
\* return, and any other character as it is.
Escape(c) ==
    CASE c = "\\" -> <<"\\", "\\">>
      [] c = "\n" -> <<"\\", "n">>
      [] c = "\t" -> <<"\\", "t">>
      [] c = "\r" -> <<"\\", "r">>
      [] OTHER    -> <<c>>

RECURSIVE Encode(_)
Encode(s) == IF s = <<>> THEN <<>> ELSE Escape(Head(s)) \o Encode(Tail(s))

\* C14: when read_string returns, re-encoding the value of the token it
\* returns (each backslash, newline, tab and carriage return replaced by
\* its two-character escape) gives the text of the input between the two
\* quotes.
C14_StringRoundTrip ==
    [][ (op' = "read_string" /\ ret'.status = "return") =>
            /\ ReturnsToken(ret')
            /\ ret'.value.value.type = "str"
            /\ Encode(ret'.value.value.v) =
                   SubSeq(stream, offset + 2, offset' - 1) ]_vars

\* The input of test_pop_char_advances_stream_offset_and_position and the
\* positions the claim lists for it, by number of characters consumed.
PopStream == <<"a", "b", "\n", "c", "d", "\n", "e", "f">>

PopPositions ==
    << <<1, 2>>, <<2, 1>>, <<2, 2>>, <<2, 3>>,
       <<3, 1>>, <<3, 2>>, <<3, 3>>, <<3, 4>> >>

\* C15: pop_char returns None and increases offset by exactly 1 wherever
\* the cursor is, end of stream and beyond included; line is incremented
\* and column set to 1 if the new offset is within the stream and holds a
\* newline, otherwise line is kept and column incremented.  On 'ab\ncd\nef'
\* the position after k characters are consumed is the k-th of the listed
\* positions.
C15_PopCharAdvances ==
    /\ [][ op' = "pop_char" =>
               /\ ret' = [status |-> "return", value |-> NoneValue]
               /\ offset' = offset + 1
               /\ stream' = stream /\ length' = length
               /\ <<line', column'>> =
                      IF offset' < length /\ stream[offset' + 1] = "\n"
                      THEN <<line + 1, 1>>
                      ELSE <<line, column + 1>> ]_vars
    /\ [] ( (stream = PopStream /\ offset \in 1..Len(PopPositions)) =>
               <<line, column>> = PopPositions[offset] )

\* pop_char has been called at the end of 'ab\ncd\nef', after the eight
\* pops of the table.
C15_Witness ==
    /\ op = "pop_char"
    /\ stream = PopStream
    /\ offset = length + 1
    /\ line = 3 /\ column = 5

\* C16: next_char at end of stream returns the empty string and leaves
\* offset, line and column unchanged; before the end it returns the
\* character at offset and increases offset by exactly 1.  Successive
\* calls from offset 0 so return the characters of the input in order, and
\* the empty string from then on.
C16_NextChar ==
    [][ op' = "next_char" =>
            /\ ret'.status = "return"
            /\ stream' = stream /\ length' = length
            /\ IF offset >= length
               THEN /\ ret'.value = Str(<<>>)
                    /\ offset' = offset /\ line' = line /\ column' = column
               ELSE /\ ret'.value = Str(<<stream[offset + 1]>>)
                    /\ offset' = offset + 1 ]_vars

\* next_char has returned the empty string at the end of an input of at
\* least two different characters.
C16_Witness ==
    /\ op = "next_char"
    /\ offset = length /\ length >= 2
    /\ stream[1] # stream[2]
    /\ ret.status = "return"
    /\ ret.value = Str(<<>>)

\* C17: peek_char returns the character at offset, or the empty string
\* when offset >= length; peek2_char returns the character at offset + 1,
\* or the empty string when offset + 1 >= length.  Neither changes offset,
\* line or column, and a call that directly follows a call of the same
\* method returns the same value.
C17_PeeksObserve ==
    /\ [][ op' = "peek_char" =>
               /\ ret'.status = "return"
               /\ ret'.value = IF offset >= length THEN Str(<<>>)
                               ELSE Str(<<stream[offset + 1]>>) ]_vars
    /\ [][ op' = "peek2_char" =>
               /\ ret'.status = "return"
               /\ ret'.value = IF offset + 1 >= length THEN Str(<<>>)
                               ELSE Str(<<stream[offset + 2]>>) ]_vars
    /\ [][ op' \in {"peek_char", "peek2_char"} =>
               /\ Self' = Self
               /\ op = op' => ret' = ret ]_vars

\* peek2_char has returned a character that differs from the one at
\* offset, with the cursor inside the input.
C17_Witness ==
    /\ op = "peek2_char"
    /\ 1 <= offset /\ offset + 1 < length
    /\ stream[offset + 2] # stream[offset + 1]
    /\ ret.status = "return"
    /\ ret.value = Str(<<stream[offset + 2]>>)

\* What C18 says of a call of skip_whitespace apart from the bound on
\* offset: it returns None, the characters it consumed are all whitespace,
\* it leaves the cursor at end of stream or on a character that is not
\* whitespace, and it changes nothing when called there.
SkipsWhitespace ==
    /\ ret' = [status |-> "return", value |-> NoneValue]
    /\ stream' = stream /\ length' = length
    /\ offset' >= offset
    /\ \A i \in (offset + 1)..offset' :
           i <= length /\ stream[i] \in SpaceChars
    /\ offset' >= length \/ stream[offset' + 1] \notin SpaceChars
    /\ (offset >= length \/ stream[offset + 1] \notin SpaceChars) =>
           Self' = Self

\* C18 as stated: skip_whitespace consumes only whitespace and returns
\* with the cursor at end of stream or on a non-whitespace character, is a
\* no-op when called there, and offset does not exceed length when it
\* returns.
C18_SkipWithinLength ==
    [][ op' = "skip_whitespace" =>
            (SkipsWhitespace /\ offset' <= length) ]_vars

\* C18 as amended: the same, but offset does not exceed length when it
\* returns provided it did not when skip_whitespace was called; called
\* with offset past the end (pop_char can move it there) skip_whitespace
\* leaves it there.
C18_SkipWhitespace ==
    [][ op' = "skip_whitespace" =>
            /\ SkipsWhitespace
            /\ offset <= length => offset' <= length
            /\ offset > length => offset' = offset ]_vars

\* skip_whitespace has stopped on the 'a' of the input of
\* test_skip_whitespace_consumes_stream_of_mixed_whitespaces.
C18_Witness ==
    /\ op = "skip_whitespace"
    /\ stream = <<" ", "\t", "\n", "\r", "a", "\r", "\n", "\t", " ">>
    /\ offset = 4
    /\ ret = [status |-> "return", value |-> NoneValue]

\* The index of the hyphen at which read_identifier, called at offset on a
\* first character it accepts, must fail according to C19: the first hyphen
\* after the first character that is not followed by a letter, digit,
\* underscore or hyphen, when only letters, digits, underscores and
\* hyphens lie between the first character and it; 0 if there is none.
OffendingHyphen ==
    LET bad == { j \in (offset + 2)..length :
                   /\ stream[j] = "-"
                   /\ j < length => stream[j + 1] \notin IdentifierChars
                   /\ \A i \in (offset + 2)..(j - 1) :
                          stream[i] \in IdentifierChars }
    IN  IF bad = {} THEN 0
        ELSE CHOOSE j \in bad : \A k \in bad : j <= k

\* C19: read_identifier raises LexerError when the first character is a
\* digit or a hyphen; and when, after a first character it accepted, its
\* loop comes to a hyphen that is not followed by a letter, digit (0-9),
\* underscore or hyphen, it raises LexerError with that hyphen not
\* consumed.
C19_IdentifierErrors ==
    /\ [][ (op' = "read_identifier" /\ offset < length
            /\ stream[offset + 1] \in AsciiDigits \cup {"-"}) =>
               ret'.status = "LexerError" ]_vars
    /\ [][ (op' = "read_identifier" /\ offset < length
            /\ ~is_digit(stream[offset + 1]) /\ stream[offset + 1] # "-"
            /\ OffendingHyphen # 0) =>
               /\ ret'.status = "LexerError"
               /\ offset' = OffendingHyphen - 1
               /\ stream[offset' + 1] = "-" ]_vars

\* The character an escape letter stands for.
Decoded(c) ==
    CASE c = "n" -> "\n"
      [] c = "t" -> "\t"
      [] c = "r" -> "\r"
      [] OTHER   -> c

\* The string literal of s whose opening quote is at index i - 1, read as
\* C20 describes it: ok tells whether a closing quote is found before the
\* end of s and every escape sequence before it is one of the four, text
\* is the literal and decoded characters in order, next the number of
\* characters of s up to and including the closing quote.
RECURSIVE Literal(_, _, _)
Literal(s, i, text) ==
    IF i > Len(s) THEN [ok |-> FALSE, text |-> text, next |-> i]
    ELSE IF s[i] = "\"" THEN [ok |-> TRUE, text |-> text, next |-> i]
    ELSE IF s[i] = "\\"
    THEN IF i < Len(s) /\ s[i + 1] \in {"\\", "n", "t", "r"}
         THEN Literal(s, i + 2, Append(text, Decoded(s[i + 1])))
         ELSE [ok |-> FALSE, text |-> text, next |-> i]
    ELSE Literal(s, i + 1, Append(text, s[i]))

\* C20: read_string called on an opening quote returns a STRING token
\* whose value is the literal and decoded characters up to the closing
\* quote, in order, and leaves the cursor right after the closing quote;
\* it raises LexerError, returning no token, if the first character is
\* not a double quote, if the input ends before a closing quote, or if an
\* escape sequence in it is not one of the four.
C20_StringToken ==
    [][ op' = "read_string" =>
            IF offset < length /\ stream[offset + 1] = "\""
            THEN LET lit == Literal(stream, offset + 2, <<>>)
                 IN  IF lit.ok
                     THEN /\ TokenIs(ret', "STRING", lit.text)
                          /\ offset' = lit.next
                     ELSE ret'.status = "LexerError"
            ELSE ret'.status = "LexerError" ]_vars

\* C21: read_escape_char called on a backslash followed by a backslash,
\* 'n', 't' or 'r' consumes these two characters and returns a backslash,
\* a newline, a tab or a carriage return respectively; in every other case
\* (no backslash first, a backslash that ends the input, a backslash
\* followed by any other character, a double quote included) it raises
\* LexerError.
C21_EscapeChar ==
    [][ op' = "read_escape_char" =>
            IF /\ offset + 1 < length
               /\ stream[offset + 1] = "\\"
               /\ stream[offset + 2] \in {"\\", "n", "t", "r"}
            THEN /\ offset' = offset + 2
                 /\ ret'.status = "return"
                 /\ ret'.value =
                        CASE stream[offset + 2] = "\\" -> Str(<<"\\">>)
                          [] stream[offset + 2] = "n" -> Str(<<"\n">>)
                          [] stream[offset + 2] = "t" -> Str(<<"\t">>)
                          [] stream[offset + 2] = "r" -> Str(<<"\r">>)
            ELSE ret'.status = "LexerError" ]_vars

\* read_escape_char has resolved backslash-t to a tab.
C21_Witness ==
    /\ op = "read_escape_char"
    /\ offset = 2
    /\ stream[1] = "\\" /\ stream[2] = "t"
    /\ ret.status = "return"
    /\ ret.value = Str(<<"\t">>)

\* The index of the first newline of the input after index i, or
\* length + 1 if there is none.
CommentEnd(i) ==
    LET nl == { j \in (i + 1)..length : stream[j] = "\n" }
    IN  IF nl = {} THEN length + 1
        ELSE CHOOSE j \in nl : \A k \in nl : j <= k

\* C22: read_comment called on two hyphens returns a COMMENT token whose
\* value is the characters after the two hyphens up to, and excluding,
\* the first newline or the end of the input, and leaves the cursor just
\* after that newline, or at the end of the input; called on anything
\* else it raises LexerError.
C22_CommentToken ==
    [][ op' = "read_comment" =>
            IF /\ offset + 1 < length
               /\ stream[offset + 1] = "-"
               /\ stream[offset + 2] = "-"
            THEN LET end == CommentEnd(offset + 2)
                 IN  /\ TokenIs(ret', "COMMENT",
                                SubSeq(stream, offset + 3, end - 1))
                     /\ offset' = IF end > length THEN length ELSE end
            ELSE ret'.status = "LexerError" ]_vars

\* C23: as long as the Lexer has been driven through read_next_token only,
\* whatever the calls returned or raised, offset does not exceed length;
\* and no call of read_next_token made with offset within length moves it
\* past length.
C23_ScanWithinLength ==
    /\ [] (pure => offset <= length)
    /\ [][ (op' = "read_next_token" /\ offset <= length) =>
               offset' <= length ]_vars

\* A caller of read_next_token alone has got a LexerError at the end of the
\* input from its second or a later call.
C23_Witness ==
    /\ pure
    /\ Len(observed) >= 2
    /\ op = "read_next_token"
    /\ ret.status = "LexerError"
    /\ offset = length

\* The number of newlines of the input at the Python indices 1..k.
RECURSIVE NewlinesUpTo(_)
NewlinesUpTo(k) ==
    IF k < 1 THEN 0
    ELSE (IF stream[k + 1] = "\n" THEN 1 ELSE 0) + NewlinesUpTo(k - 1)

\* C24: in every reachable state line is 1 plus the number of newlines of
\* the input at the Python indices 1 through min(offset, length - 1), so a
\* newline at index 0 is never counted; and once offset >= length no
\* operation changes line.
C24_LineCountsNewlines ==
    /\ [] ( line = 1 + NewlinesUpTo(IF offset < length - 1 THEN offset
                                     ELSE length - 1) )
    /\ [][ offset >= length => line' = line ]_vars

\* The cursor is past the end of an input of three characters that begins
\* and ends with a newline, and only the last one has been counted.
C24_Witness ==
    /\ length = 3
    /\ stream[1] = "\n" /\ stream[2] # "\n" /\ stream[3] = "\n"
    /\ offset > length
    /\ line = 2

\* r is the error read_next_token raises when it cannot dispatch.
IsDispatchError(r) ==
    /\ r.status = "LexerError"
    /\ r.message = "Unexpected character"

\* Once read_next_token has raised the dispatch error, the next call of
\* read_next_token raises the same error at the same position and leaves
\* the cursor where it is; so a caller that only calls read_next_token
\* gets that error from every later call, and never an EOF token.
DispatchErrorRepeats ==
    /\ [][ (op = "read_next_token" /\ IsDispatchError(ret)
            /\ op' = "read_next_token") =>
               (ret' = ret /\ Self' = Self) ]_vars
    /\ [] ( pure =>
               \A i, j \in 1..Len(observed) :
                   (i < j /\ IsDispatchError(observed[i])) =>
                       observed[j] = observed[i] )

\* C25 as stated: a call of read_next_token that raises the dispatch error
\* leaves offset, line and column as they were before the call, and every
\* later call raises the same error at the same position.
C25_DispatchKeepsCursor ==
    /\ [][ (op' = "read_next_token" /\ IsDispatchError(ret')) =>
               Self' = Self ]_vars
    /\ DispatchErrorRepeats

\* C25 as amended: a call of read_next_token that raises the dispatch
\* error has consumed the whitespace in front of the offending character
\* and nothing else, so it leaves the cursor on that character, reports
\* that position, and leaves offset, line and column as they were if the
\* lookahead was not whitespace; every later call raises the same error at
\* the same position.
C25_DispatchStopsAtOffender ==
    /\ [][ (op' = "read_next_token" /\ IsDispatchError(ret')) =>
               /\ offset < length
               /\ offset' >= offset /\ offset' < length
               /\ \A i \in (offset + 1)..offset' : stream[i] \in SpaceChars
               /\ stream[offset' + 1] \notin DispatchChars
               /\ ret'.line = line' /\ ret'.column = column'
               /\ stream[offset + 1] \notin SpaceChars => Self' = Self ]_vars
    /\ DispatchErrorRepeats

\* A caller of read_next_token alone has got the dispatch error twice, the
\* first time after whitespace was skipped.
C25_Witness ==
    /\ pure
    /\ Len(observed) >= 2
    /\ IsDispatchError(observed[1])
    /\ observed[2] = observed[1]
    /\ offset >= 1 /\ offset < length
    /\ stream[1] \in SpaceChars
    /\ stream[offset + 1] = "?"

====
